---- MODULE Spec2Model ----
(***************************************************************************)
(* scripts/export-lcl-to-csv.py: main() reads its configuration from the   *)
(* process environment, issues one GET to the data service, parses the     *)
(* body as JSON and writes the records with csv.DictWriter.                *)
(*                                                                         *)
(* Text (file contents, CSV fields, key names) is a sequence of            *)
(* one-character strings, so that quoting and re-parsing are computed      *)
(* character by character.  A JSON value is a record of one fixed shape:   *)
(*   t     : "null" | "bool" | "num" | "str" | "arr" | "obj"               *)
(*   b,n,s : the payload of a bool, a number, a string                     *)
(*   items : the members <<[k, v], ...>> of an array (k = <<>>) or of an   *)
(*           object, in insertion order, as json.loads builds them.        *)
(***************************************************************************)
EXTENDS Integers, Sequences, FiniteSets, TLC

(* ------------------------------ bounds -------------------------------- *)

\* The largest number of elements of a JSON array the data service returns.
MaxRows == 2

(* ---------------------------- JSON values ------------------------------ *)

JNull == [t |-> "null", b |-> FALSE, n |-> 0, s |-> <<>>, items |-> <<>>]
JBool(x) == [t |-> "bool", b |-> x, n |-> 0, s |-> <<>>, items |-> <<>>]
JNum(x) == [t |-> "num", b |-> FALSE, n |-> x, s |-> <<>>, items |-> <<>>]
JStr(x) == [t |-> "str", b |-> FALSE, n |-> 0, s |-> x, items |-> <<>>]
JArr(vs) ==
  [t |-> "arr", b |-> FALSE, n |-> 0, s |-> <<>>,
   items |-> [i \in 1..Len(vs) |-> [k |-> <<>>, v |-> vs[i]]]]
JObj(ks, vs) ==
  [t |-> "obj", b |-> FALSE, n |-> 0, s |-> <<>>,
   items |-> [i \in 1..Len(ks) |-> [k |-> ks[i], v |-> vs[i]]]]

\* The field names the data service uses, and every insertion order of them.
KeyA == <<"a">>
KeyB == <<"b">>
KeySeqs == {<<>>, <<KeyA>>, <<KeyB>>, <<KeyA, KeyB>>, <<KeyB, KeyA>>}

\* A string value that needs every kind of CSV quoting: delimiter, quote, newline.
Tricky == <<"x", ",", "\"", "\n", "y">>

\* The field values the data service puts in a record.
FieldVals == {JBool(TRUE), JStr(Tricky)}

\* Every record over KeySeqs with values in vals.
RecordsOver(vals) ==
  UNION {{JObj(ks, vs) : vs \in [1..Len(ks) -> vals]} : ks \in KeySeqs}

\* An array element: a record, or a bare number where a record was expected.
Elements == RecordsOver(FieldVals) \cup {JNum(1)}

ArraysOf(elems) == UNION {{JArr(vs) : vs \in [1..m -> elems]} : m \in 1..MaxRows}

\* Bodies that parse to something other than a non-empty array.
OtherValues ==
  {JNull, JBool(FALSE), JBool(TRUE), JNum(0), JNum(1), JStr(<<>>), JStr(<<"a">>),
   JArr(<<>>), JObj(<<>>, <<>>), JObj(<<KeyA>>, <<JNum(1)>>)}

\* A response body: text that is not JSON, or the text of a JSON value.
NotJson == [valid |-> FALSE, value |-> JNull]
JsonText(v) == [valid |-> TRUE, value |-> v]
Bodies == {NotJson} \cup {JsonText(v) : v \in OtherValues \cup ArraysOf(Elements)}

\* What urlopen and resp.read().decode can end with.
HttpCodes == {403, 500}
Responses ==
  {[kind |-> "ok", code |-> 200, body |-> b] : b \in Bodies}
    \cup {[kind |-> "http_error", code |-> c, body |-> NotJson] : c \in HttpCodes}
    \cup {[kind |-> "url_error", code |-> 0, body |-> NotJson],
          [kind |-> "bad_utf8", code |-> 200, body |-> NotJson]}
\* The status line of a response, and the one before any response.
Status(r) == [kind |-> r.kind, code |-> r.code]
NoResponse == [kind |-> "none", code |-> 0]

(* --------------------------- the environment --------------------------- *)

Unset == "<unset>"
EnvNames == {"SUPABASE_URL", "NEXT_PUBLIC_SUPABASE_URL", "SUPABASE_SERVICE_ROLE_KEY"}
EnvValues(name) ==
  {Unset, "",
   CASE name = "SUPABASE_URL" -> "https://proj.supabase.co"
     [] name = "NEXT_PUBLIC_SUPABASE_URL" -> "https://next.supabase.co"
     [] OTHER -> "service-role-key"}
Environs == {e \in [EnvNames -> UNION {EnvValues(nm) : nm \in EnvNames}] :
               \A nm \in EnvNames : e[nm] \in EnvValues(nm)}

DefaultPath == "lcl-export.csv"
CustomPath == "out/custom.csv"
Paths == {DefaultPath, CustomPath}
Argvs == {<<"export-lcl-to-csv.py">>, <<"export-lcl-to-csv.py", CustomPath>>}

\* The file system before the run: the default path holds an earlier export,
\* the custom path does not exist.
NoFile == [exists |-> FALSE, content |-> <<>>]
InitFs == [p \in Paths |->
            IF p = DefaultPath THEN [exists |-> TRUE, content |-> <<"o", "l", "d">>]
            ELSE NoFile]

(* ------------------------- Python and csv ------------------------------ *)

\* `not x` on an environment value: None and "" are falsy.
EnvTruthy(x) == x /= Unset /\ x /= ""

\* `a or b` on two environment values.
PyOr(a, b) == IF EnvTruthy(a) THEN a ELSE b

\* The truth value of a parsed JSON value in `if not rows`.
PyTruthyNoneOnly(v) == v.t /= "null"
PyTruthyEmptyListOnly(v) == ~(v.t = "arr" /\ v.items = <<>>)
PyTruthy(v) ==
  CASE v.t = "null" -> FALSE
    [] v.t = "bool" -> v.b
    [] v.t = "num" -> v.n /= 0
    [] v.t = "str" -> v.s /= <<>>
    [] OTHER -> v.items /= <<>>

\* `not supabase_url or not service_key` is false.
ConfigOkNeedsEither(url, key) == EnvTruthy(url) \/ EnvTruthy(key)
ConfigOk(url, key) == EnvTruthy(url) /\ EnvTruthy(key)

\* sys.argv[1] if len(sys.argv) > 1 else "lcl-export.csv"
OutPathIgnoresArgument(args) == DefaultPath
OutPath(args) == IF Len(args) > 1 THEN args[2] ELSE DefaultPath

\* The request main() builds.
BuildRequest(url, key) ==
  [base |-> url,
   path |-> "/rest/v1/legal_clause_library",
   select |-> "clause_id,clause_type,category,standard_text,plain_english_summary,risk_level,is_required,version,tags,metadata,active,created_at,updated_at",
   limit |-> 2000,
   apikey |-> key,
   authorization |-> <<"Bearer", key>>,
   accept |-> "application/json",
   range_unit |-> "items",
   range |-> <<0, 1999>>]

\* What main() prints: the stream's lines are records [text, code, n, path].
Line(text, code, n, path) == [text |-> text, code |-> code, n |-> n, path |-> path]
MissingConfigMessage == Line("Missing SUPABASE_URL or SUPABASE_SERVICE_ROLE_KEY in env", 0, 0, "")
HttpErrorMessageWithoutCode(code) == Line("HTTP error", 0, 0, "")
HttpErrorMessage(code) == Line("HTTP error", code, 0, "")
RequestFailedMessage == Line("Request failed", 0, 0, "")
ParseFailedMessage == Line("Failed to parse JSON", 0, 0, "")
NoRowsMessage == Line("No rows returned.", 0, 0, "")
SummaryMessage(n, path) == Line("Exported clauses to", 0, n, path)
\* The traceback the interpreter prints for an exception nothing catches.
Traceback(exc) == Line(exc, 0, 0, "")

\* Decimal digits of a natural number.
RECURSIVE Digits(_)
Digits(n) ==
  LET d == <<"0", "1", "2", "3", "4", "5", "6", "7", "8", "9">>[(n % 10) + 1]
  IN IF n < 10 THEN <<d>> ELSE Digits(n \div 10) \o <<d>>

\* sep.join(parts)
RECURSIVE Join(_, _)
Join(parts, sep) ==
  IF parts = <<>> THEN <<>>
  ELSE IF Len(parts) = 1 THEN parts[1]
  ELSE parts[1] \o sep \o Join(Tail(parts), sep)

\* repr(v) of a parsed value, for strings that need no escape.
RECURSIVE PyRepr(_)
PyRepr(v) ==
  CASE v.t = "null" -> <<"N", "o", "n", "e">>
    [] v.t = "bool" -> IF v.b THEN <<"T", "r", "u", "e">> ELSE <<"F", "a", "l", "s", "e">>
    [] v.t = "num" -> Digits(v.n)
    [] v.t = "str" -> <<"'">> \o v.s \o <<"'">>
    [] v.t = "arr" ->
         <<"[">> \o Join([i \in 1..Len(v.items) |-> PyRepr(v.items[i].v)], <<",", " ">>)
           \o <<"]">>
    [] OTHER ->
         <<"{">>
           \o Join([i \in 1..Len(v.items) |->
                      <<"'">> \o v.items[i].k \o <<"'", ":", " ">> \o PyRepr(v.items[i].v)],
                   <<",", " ">>)
           \o <<"}">>

\* The text the csv writer makes of a field: None is empty, a str is itself,
\* anything else is str(field).
FieldText(v) ==
  CASE v.t = "null" -> <<>>
    [] v.t = "str" -> v.s
    [] OTHER -> PyRepr(v)

\* A field is quoted when it holds the delimiter, the quote or a line break.
NeedsQuote(text) == \E i \in 1..Len(text) : text[i] \in {",", "\"", "\r", "\n"}

RECURSIVE DoubleQuotes(_)
DoubleQuotes(text) ==
  IF text = <<>> THEN <<>>
  ELSE (IF text[1] = "\"" THEN <<"\"", "\"">> ELSE <<text[1]>>) \o DoubleQuotes(Tail(text))

QuoteField(text) ==
  IF NeedsQuote(text) THEN <<"\"">> \o DoubleQuotes(text) \o <<"\"">> ELSE text

\* writer.writerow(fields): a lone empty field is written as "", the line ends \r\n.
WriteRowText(fields) ==
  (IF Len(fields) = 1 /\ fields[1] = <<>>
   THEN <<"\"", "\"">>
   ELSE Join([i \in 1..Len(fields) |-> QuoteField(fields[i])], <<",">>))
    \o <<"\r", "\n">>

IsDict(v) == v.t = "obj"
Keys(v) == [i \in 1..Len(v.items) |-> v.items[i].k]
HasKey(v, k) == \E i \in 1..Len(v.items) : v.items[i].k = k
Get(v, k) == (CHOOSE it \in {v.items[i] : i \in 1..Len(v.items)} : it.k = k).v
SeqToSet(q) == {q[i] : i \in 1..Len(q)}

\* list(rows[0].keys()): "ok" with the keys, or the exception it raises.
FieldnamesOfLast(rows) ==
  IF rows.t = "arr" /\ rows.items /= <<>> /\ IsDict(rows.items[Len(rows.items)].v)
  THEN [exc |-> "", names |-> Keys(rows.items[Len(rows.items)].v)]
  ELSE [exc |-> "AttributeError", names |-> <<>>]
Fieldnames(rows) ==
  CASE rows.t = "arr" ->
         IF rows.items = <<>> THEN [exc |-> "IndexError", names |-> <<>>]
         ELSE IF IsDict(rows.items[1].v)
         THEN [exc |-> "", names |-> Keys(rows.items[1].v)]
         ELSE [exc |-> "AttributeError", names |-> <<>>]
    [] rows.t = "obj" -> [exc |-> "KeyError", names |-> <<>>]
    [] rows.t = "str" -> [exc |-> "AttributeError", names |-> <<>>]
    [] OTHER -> [exc |-> "TypeError", names |-> <<>>]

\* DictWriter._dict_to_list with extrasaction="raise", restval="": the row's
\* fields in fieldnames order, or the exception it raises.
DictToList(names, row) ==
  IF ~IsDict(row) THEN [exc |-> "AttributeError", fields |-> <<>>]
  ELSE IF SeqToSet(Keys(row)) \ SeqToSet(names) /= {}
  THEN [exc |-> "ValueError", fields |-> <<>>]
  ELSE [exc |-> "",
        fields |-> [j \in 1..Len(names) |->
                      IF HasKey(row, names[j]) THEN FieldText(Get(row, names[j])) ELSE <<>>]]

(* ------------------------------ main() --------------------------------- *)

VARIABLES
  environ,       \* os.environ
  argv,          \* sys.argv
  fs,            \* the files on disk, by path
  pc,            \* where main() is
  supabase_url, service_key, out_path, req, data, rows, fieldnames,   \* main()'s locals
  resp,          \* the status of the data service's answer
  f,             \* the output file object: "unopened", "open", "closed"
  lines,         \* rows the csv writer has written to f, the header included
  requests,      \* every request handed to urlopen, in order
  opens,         \* every path handed to open(), in order
  stdout, stderr,
  exit_code      \* the process's exit status, -1 while it runs

vars == <<environ, argv, fs, pc, supabase_url, service_key, out_path, req, data, rows,
          fieldnames, resp, f, lines, requests, opens, stdout, stderr, exit_code>>

Running == -1

Init ==
  /\ environ \in Environs
  /\ argv \in Argvs
  /\ fs = InitFs
  /\ pc = "config"
  /\ supabase_url = Unset
  /\ service_key = Unset
  /\ out_path = ""
  /\ req = BuildRequest(Unset, Unset)
  /\ data = NotJson
  /\ rows = JNull
  /\ fieldnames = <<>>
  /\ resp = NoResponse
  /\ f = "unopened"
  /\ lines = 0
  /\ requests = <<>>
  /\ opens = <<>>
  /\ stdout = <<>>
  /\ stderr = <<>>
  /\ exit_code = Running

\* print(msg, file=sys.stderr); sys.exit(1)
Fail(msg) ==
  /\ stderr' = Append(stderr, msg)
  /\ exit_code' = 1
  /\ pc' = "exit"

\* Where main() goes after the except clauses of the request: sys.exit(1).
RetryRequest == "urlopen"
AfterRequestFailure == "exit"

\* Lines 21-25: read the configuration, stop if a value is missing.
CheckConfig ==
  /\ pc = "config"
  /\ LET url == PyOr(environ["SUPABASE_URL"], environ["NEXT_PUBLIC_SUPABASE_URL"])
         key == environ["SUPABASE_SERVICE_ROLE_KEY"]
     IN /\ supabase_url' = url
        /\ service_key' = key
        /\ IF ConfigOk(url, key)
           THEN pc' = "build" /\ UNCHANGED <<stderr, exit_code>>
           ELSE Fail(MissingConfigMessage)
  /\ UNCHANGED <<environ, argv, fs, out_path, req, data, rows, fieldnames, resp, f, lines,
                 requests, opens, stdout>>

\* Lines 27-46: the output path and the request.
Build ==
  /\ pc = "build"
  /\ out_path' = OutPath(argv)
  /\ req' = BuildRequest(supabase_url, service_key)
  /\ pc' = "urlopen"
  /\ UNCHANGED <<environ, argv, fs, supabase_url, service_key, data, rows, fieldnames, resp,
                 f, lines, requests, opens, stdout, stderr, exit_code>>

\* Lines 48-50: the request succeeds and its body decodes.
UrlOpenOk ==
  /\ pc = "urlopen"
  /\ \E r \in Responses :
       /\ r.kind = "ok"
       /\ resp' = Status(r)
       /\ data' = r.body
  /\ requests' = Append(requests, req)
  /\ pc' = "parse"
  /\ UNCHANGED <<environ, argv, fs, supabase_url, service_key, out_path, req, rows,
                 fieldnames, f, lines, opens, stdout, stderr, exit_code>>

\* Lines 51-53: urlopen raises HTTPError.
UrlOpenHttpError ==
  /\ pc = "urlopen"
  /\ \E r \in Responses :
       /\ r.kind = "http_error"
       /\ resp' = Status(r)
       /\ stderr' = Append(stderr, HttpErrorMessage(r.code))
  /\ requests' = Append(requests, req)
  /\ exit_code' = 1
  /\ pc' = AfterRequestFailure
  /\ UNCHANGED <<environ, argv, fs, supabase_url, service_key, out_path, req, data, rows,
                 fieldnames, f, lines, opens, stdout>>

\* Lines 54-56: urlopen, read or decode raises anything else.
UrlOpenFailed ==
  /\ pc = "urlopen"
  /\ \E r \in Responses :
       /\ r.kind \in {"url_error", "bad_utf8"}
       /\ resp' = Status(r)
  /\ stderr' = Append(stderr, RequestFailedMessage)
  /\ requests' = Append(requests, req)
  /\ exit_code' = 1
  /\ pc' = AfterRequestFailure
  /\ UNCHANGED <<environ, argv, fs, supabase_url, service_key, out_path, req, data, rows,
                 fieldnames, f, lines, opens, stdout>>

\* Lines 58-62: json.loads(data).
ParseJson ==
  /\ pc = "parse"
  /\ IF data.valid
     THEN rows' = data.value /\ pc' = "check" /\ UNCHANGED <<stderr, exit_code>>
     ELSE Fail(ParseFailedMessage) /\ UNCHANGED rows
  /\ UNCHANGED <<environ, argv, fs, supabase_url, service_key, out_path, req, data,
                 fieldnames, resp, f, lines, requests, opens, stdout>>

\* Lines 64-66: if not rows.
CheckRows ==
  /\ pc = "check"
  /\ IF PyTruthy(rows)
     THEN pc' = "fieldnames" /\ UNCHANGED <<stderr, exit_code>>
     ELSE Fail(NoRowsMessage)
  /\ UNCHANGED <<environ, argv, fs, supabase_url, service_key, out_path, req, data, rows,
                 fieldnames, resp, f, lines, requests, opens, stdout>>

\* Line 68: fieldnames = list(rows[0].keys()); an exception here is not caught.
GetFieldnames ==
  /\ pc = "fieldnames"
  /\ LET r == Fieldnames(rows)
     IN IF r.exc = ""
        THEN fieldnames' = r.names /\ pc' = "open" /\ UNCHANGED <<stderr, exit_code>>
        ELSE Fail(Traceback(r.exc)) /\ UNCHANGED fieldnames
  /\ UNCHANGED <<environ, argv, fs, supabase_url, service_key, out_path, req, data, rows,
                 resp, f, lines, requests, opens, stdout>>

\* Lines 69-70: open(out_path, "w") creates or truncates the file.
OpenFile ==
  /\ pc = "open"
  /\ opens' = Append(opens, out_path)
  /\ fs' = [fs EXCEPT ![out_path] = [exists |-> TRUE, content |-> <<>>]]
  /\ f' = "open"
  /\ pc' = "header"
  /\ UNCHANGED <<environ, argv, supabase_url, service_key, out_path, req, data, rows,
                 fieldnames, resp, lines, requests, stdout, stderr, exit_code>>

\* Line 69: open() raises OSError (no such directory, no permission).
OpenFails ==
  /\ pc = "open"
  /\ opens' = Append(opens, out_path)
  /\ Fail(Traceback("OSError"))
  /\ UNCHANGED <<environ, argv, fs, supabase_url, service_key, out_path, req, data, rows,
                 fieldnames, resp, f, lines, requests, stdout>>

\* Line 71: writer.writeheader().
WriteHeader ==
  /\ pc = "header"
  /\ fs' = [fs EXCEPT ![out_path].content = @ \o WriteRowText(fieldnames)]
  /\ lines' = 1
  /\ pc' = "rows"
  /\ UNCHANGED <<environ, argv, supabase_url, service_key, out_path, req, data, rows,
                 fieldnames, resp, f, requests, opens, stdout, stderr, exit_code>>

\* Line 72: one step of writer.writerows(rows); an exception of _dict_to_list
\* leaves the with block, which closes the file, and is not caught.
WriteRow ==
  /\ pc = "rows"
  /\ lines <= Len(rows.items)
  /\ LET r == DictToList(fieldnames, rows.items[lines].v)
     IN IF r.exc = ""
        THEN /\ fs' = [fs EXCEPT ![out_path].content = @ \o WriteRowText(r.fields)]
             /\ lines' = lines + 1
             /\ UNCHANGED <<pc, f, stderr, exit_code>>
        ELSE /\ f' = "closed"
             /\ Fail(Traceback(r.exc))
             /\ UNCHANGED <<fs, lines>>
  /\ UNCHANGED <<environ, argv, supabase_url, service_key, out_path, req, data, rows,
                 fieldnames, resp, requests, opens, stdout>>

\* Line 72, end of the with block: every row is written, the file is closed.
CloseFile ==
  /\ pc = "rows"
  /\ lines > Len(rows.items)
  /\ f' = "closed"
  /\ pc' = "summary"
  /\ UNCHANGED <<environ, argv, fs, supabase_url, service_key, out_path, req, data, rows,
                 fieldnames, resp, lines, requests, opens, stdout, stderr, exit_code>>

\* Line 74 and the return of main(): the summary, exit status 0.
PrintSummary ==
  /\ pc = "summary"
  /\ stdout' = Append(stdout, SummaryMessage(Len(rows.items), out_path))
  /\ exit_code' = 0
  /\ pc' = "exit"
  /\ UNCHANGED <<environ, argv, fs, supabase_url, service_key, out_path, req, data, rows,
                 fieldnames, resp, f, lines, requests, opens, stderr>>

Next ==
  \/ CheckConfig
  \/ Build
  \/ UrlOpenOk
  \/ UrlOpenHttpError
  \/ UrlOpenFailed
  \/ ParseJson
  \/ CheckRows
  \/ GetFieldnames
  \/ OpenFile
  \/ OpenFails
  \/ WriteHeader
  \/ WriteRow
  \/ CloseFile
  \/ PrintSummary

Spec == Init /\ [][Next]_vars

(* --------------------- reading the CSV back ---------------------------- *)

\* csv.reader over the file's text: the rows, each a sequence of fields.
RECURSIVE Reader(_, _, _, _, _, _)
Reader(text, i, st, field, row, out) ==
  IF i > Len(text)
  THEN IF st \in {"start_record", "after_cr"} THEN out ELSE Append(out, Append(row, field))
  ELSE
    LET c == text[i]
        endRecord(state) == Reader(text, i + 1, state, <<>>, <<>>, Append(out, Append(row, field)))
        endField == Reader(text, i + 1, "start_field", <<>>, Append(row, field), out)
        add(state) == Reader(text, i + 1, state, Append(field, c), row, out)
    IN CASE st = "after_cr" ->
              IF c = "\n" THEN Reader(text, i + 1, "start_record", <<>>, <<>>, out)
              ELSE Reader(text, i, "start_record", <<>>, <<>>, out)
         [] st = "start_record" ->
              IF c = "\r" THEN Reader(text, i + 1, "after_cr", <<>>, <<>>, Append(out, <<>>))
              ELSE IF c = "\n"
              THEN Reader(text, i + 1, "start_record", <<>>, <<>>, Append(out, <<>>))
              ELSE Reader(text, i, "start_field", <<>>, <<>>, out)
         [] st \in {"start_field", "in_field"} ->
              IF c = "\r" THEN endRecord("after_cr")
              ELSE IF c = "\n" THEN endRecord("start_record")
              ELSE IF c = "," THEN endField
              ELSE IF c = "\"" /\ st = "start_field"
              THEN Reader(text, i + 1, "in_quoted", field, row, out)
              ELSE add("in_field")
         [] st = "in_quoted" ->
              IF c = "\"" THEN Reader(text, i + 1, "quote_in_quoted", field, row, out)
              ELSE add("in_quoted")
         [] OTHER ->
              IF c = "\"" THEN add("in_quoted")
              ELSE IF c = "\r" THEN endRecord("after_cr")
              ELSE IF c = "\n" THEN endRecord("start_record")
              ELSE IF c = "," THEN endField
              ELSE add("in_field")

ParseCsv(text) == Reader(text, 1, "start_record", <<>>, <<>>, <<>>)

\* The JSON text of a scalar; a string stands for its own characters.
JsonScalarText(v) ==
  CASE v.t = "null" -> <<"n", "u", "l", "l">>
    [] v.t = "bool" -> IF v.b THEN <<"t", "r", "u", "e">> ELSE <<"f", "a", "l", "s", "e">>
    [] v.t = "num" -> Digits(v.n)
    [] OTHER -> v.s

(* ------------------------------ claims --------------------------------- *)

Terminated == pc = "exit"
Absent(name) == environ[name] = Unset \/ environ[name] = ""
UrlMissing == Absent("SUPABASE_URL") /\ Absent("NEXT_PUBLIC_SUPABASE_URL")
KeyMissing == Absent("SUPABASE_SERVICE_ROLE_KEY")
\* The destination the command line names.
Dest == IF Len(argv) > 1 THEN argv[2] ELSE "lcl-export.csv"
Untouched == fs = InitFs
NumRows == Len(rows.items)
Rec(i) == rows.items[i].v
\* The response parsed to a non-empty array whose elements are all records.
ArrayOfRecords ==
  /\ resp.kind = "ok" /\ data.valid /\ rows = data.value
  /\ rows.t = "arr" /\ rows.items /= <<>>
  /\ \A i \in 1..NumRows : Rec(i).t = "obj"
FileRows == ParseCsv(fs[Dest].content)

\* C1: whenever the base URL (both variables) or the service key is missing or
\* empty, main() never gets past the configuration check: no request is
\* issued, no file is opened or changed, and it ends with exit status 1.
C1_ConfigGate ==
  (UrlMissing \/ KeyMissing) =>
    /\ pc \in {"config", "exit"}
    /\ requests = <<>>
    /\ opens = <<>>
    /\ Untouched
    /\ (Terminated => exit_code = 1)

C1_Witness ==
  /\ Terminated /\ KeyMissing /\ ~UrlMissing
  /\ exit_code = 1 /\ requests = <<>>

\* C2: a run that has ended, whose response was not an array with an element
\* that is no record, either wrote the header and one row for every record and
\* exited 0, or left the output file as it was before the run.
C2_NoPartialSuccess ==
  (Terminated /\ (rows.t = "arr" => \A i \in 1..NumRows : Rec(i).t = "obj")) =>
    \/ /\ exit_code = 0
       /\ ArrayOfRecords
       /\ Len(FileRows) = NumRows + 1
    \/ fs[Dest] = InitFs[Dest]

\* C3: when a record after the first has a key the first record lacks and the
\* output file was opened, the run ends with exit status 0 and every record
\* has its row in the file.
C3_ExtraKeysDropped ==
  (/\ Terminated
   /\ f = "closed"
   /\ ArrayOfRecords
   /\ \E i \in 2..NumRows : ~(SeqToSet(Keys(Rec(i))) \subseteq SeqToSet(Keys(Rec(1)))))
    => /\ exit_code = 0
       /\ Len(FileRows) = NumRows + 1

\* C4: a body of [] ends the run with exit status 1, the "No rows returned."
\* diagnostic on the error stream, nothing on standard output, and the output
\* file neither created nor overwritten.
C4_EmptyArray ==
  (resp.kind = "ok" /\ data = JsonText(JArr(<<>>))) =>
    /\ pc \in {"parse", "check", "exit"}
    /\ opens = <<>>
    /\ Untouched
    /\ stdout = <<>>
    /\ (Terminated => exit_code = 1 /\ stderr = <<NoRowsMessage>>)

C4_Witness ==
  /\ Terminated /\ resp.kind = "ok" /\ data = JsonText(JArr(<<>>))
  /\ exit_code = 1 /\ stderr = <<NoRowsMessage>> /\ ~fs[CustomPath].exists

\* C5: each of the five failure kinds ends with exit status 1, exactly its own
\* message on the error stream (the HTTP one carrying the status code) and
\* nothing on standard output; the five messages differ; exit status 0 and
\* the summary occur only with every record written and the file closed.
C5_ExitContract ==
  /\ Cardinality({MissingConfigMessage.text, HttpErrorMessage(403).text,
                  RequestFailedMessage.text, ParseFailedMessage.text,
                  NoRowsMessage.text}) = 5
  /\ (stdout /= <<>> => exit_code = 0)
  /\ Terminated =>
       /\ (UrlMissing \/ KeyMissing) =>
            exit_code = 1 /\ stdout = <<>> /\ Len(stderr) = 1
              /\ stderr[1].text = "Missing SUPABASE_URL or SUPABASE_SERVICE_ROLE_KEY in env"
       /\ resp.kind = "http_error" =>
            exit_code = 1 /\ stdout = <<>> /\ Len(stderr) = 1
              /\ stderr[1].text = "HTTP error" /\ stderr[1].code = resp.code
       /\ resp.kind \in {"url_error", "bad_utf8"} =>
            exit_code = 1 /\ stdout = <<>> /\ Len(stderr) = 1
              /\ stderr[1].text = "Request failed"
       /\ (resp.kind = "ok" /\ ~data.valid) =>
            exit_code = 1 /\ stdout = <<>> /\ Len(stderr) = 1
              /\ stderr[1].text = "Failed to parse JSON"
       /\ (resp.kind = "ok" /\ data = JsonText(JArr(<<>>))) =>
            exit_code = 1 /\ stdout = <<>> /\ Len(stderr) = 1
              /\ stderr[1].text = "No rows returned."
       /\ exit_code \in {0, 1}
       /\ exit_code = 0 =>
            /\ stderr = <<>>
            /\ Len(stdout) = 1 /\ stdout[1].n = NumRows /\ stdout[1].path = Dest
            /\ f = "closed"
            /\ ArrayOfRecords
            /\ Len(FileRows) = NumRows + 1

C5_Witness ==
  /\ Terminated /\ resp.kind = "http_error" /\ resp.code = 403
  /\ exit_code = 1 /\ stderr[1].code = 403 /\ stdout = <<>>

\* C6: once the header is written, the first row of the file is the first
\* record's keys in insertion order, and every data row in the file holds its
\* record's values in that column order, with an empty field for a header key
\* the record lacks.
C6_ColumnFidelity ==
  lines >= 1 =>
    LET hdr == Keys(Rec(1))
        parsed == FileRows
    IN /\ Len(parsed) = lines
       /\ parsed[1] = hdr
       /\ \A i \in 2..Len(parsed) :
            /\ Len(parsed[i]) = Len(hdr)
            /\ \A j \in 1..Len(hdr) :
                 parsed[i][j] =
                   IF HasKey(Rec(i - 1), hdr[j]) THEN FieldText(Get(Rec(i - 1), hdr[j]))
                   ELSE <<>>

C6_Witness ==
  /\ Terminated /\ exit_code = 0 /\ NumRows = 2
  /\ Keys(Rec(1)) = <<KeyA, KeyB>>
  /\ Keys(Rec(2)) = <<KeyB>>
  /\ FileRows[1] = <<KeyA, KeyB>>
  /\ FileRows[3] = <<<<>>, FieldText(Get(Rec(2), KeyB))>>

\* C7: for a response of N records with identical key sets and scalar values,
\* the written file reads back as exactly N+1 rows (the header and one row per
\* record, in order) and gives, for every record and column, the JSON text of
\* the record's value.
C7_RoundTrip ==
  (/\ Terminated
   /\ f = "closed"
   /\ ArrayOfRecords
   /\ \A i \in 1..NumRows : SeqToSet(Keys(Rec(i))) = SeqToSet(Keys(Rec(1))))
    => LET parsed == FileRows
       IN /\ Len(parsed) = NumRows + 1
          /\ \A i \in 1..NumRows : \A j \in 1..Len(Keys(Rec(1))) :
               parsed[i + 1][j] = JsonScalarText(Get(Rec(i), Keys(Rec(1))[j]))

\* C8: at most one request is issued and none after a failed one; the output
\* file is opened at most once, and only after the request succeeded, its body
\* parsed and the result was a non-empty array; exit status 0 comes only after
\* the file was written and closed.
C8_SingleRequest ==
  /\ Len(requests) <= 1
  /\ Len(opens) <= 1
  /\ (resp.kind \in {"http_error", "url_error", "bad_utf8"} =>
        Terminated /\ Len(requests) = 1)
  /\ (opens /= <<>> =>
        /\ Len(requests) = 1
        /\ resp.kind = "ok" /\ data.valid /\ rows = data.value
        /\ rows.t = "arr" /\ rows.items /= <<>>)
  /\ (exit_code = 0 => Terminated /\ f = "closed" /\ lines = NumRows + 1)

C8_Witness ==
  /\ Terminated /\ exit_code = 0
  /\ Len(requests) = 1 /\ Len(opens) = 1 /\ f = "closed"

\* C9: every path other than the destination (the first argument if given,
\* lcl-export.csv otherwise) keeps its content; only the destination is ever
\* opened, and a successful run leaves the export there.
C9_OutputPath ==
  /\ \A p \in Paths : p /= Dest => fs[p] = InitFs[p]
  /\ \A i \in 1..Len(opens) : opens[i] = Dest
  /\ (exit_code = 0 => fs[Dest].exists /\ fs[Dest] /= InitFs[Dest])

C9_Witness ==
  /\ Terminated /\ exit_code = 0 /\ Len(argv) > 1
  /\ fs[CustomPath].exists
  /\ fs[DefaultPath] = InitFs[DefaultPath]

\* C10: a body of null, false, 0, "" or {} takes the empty-result branch:
\* "No rows returned." on the error stream, exit status 1, the output file
\* untouched, never a decode error and never a success.
ClaimedFalsy == {JNull, JBool(FALSE), JNum(0), JStr(<<>>), JObj(<<>>, <<>>)}

C10_FalsyBodies ==
  (resp.kind = "ok" /\ data.valid /\ data.value \in ClaimedFalsy) =>
    /\ pc \in {"parse", "check", "exit"}
    /\ opens = <<>>
    /\ Untouched
    /\ stdout = <<>>
    /\ (Terminated => exit_code = 1 /\ stderr = <<NoRowsMessage>>)

C10_Witness ==
  /\ Terminated /\ resp.kind = "ok" /\ data = JsonText(JObj(<<>>, <<>>))
  /\ exit_code = 1 /\ stderr = <<NoRowsMessage>>

====
